---- MODULE Spec2Model ----
(***************************************************************************)
(* Model of financial_projections.py: run_single_simulation (one           *)
(* trajectory of four accounts, advanced week by week) and the statistics  *)
(* part of simulate (n runs, final-week balances, fraction below a         *)
(* reference, mean of the grand total).                                    *)
(*                                                                         *)
(* Numbers are exact rationals <<num, den>> in lowest terms, den > 0.      *)
(* Every input enumerated below is an integer and every rate a multiple of *)
(* 1/2, so each intermediate value is a dyadic rational of small magnitude *)
(* and the binary floating point arithmetic of the program is exact on     *)
(* these inputs.                                                           *)
(***************************************************************************)
EXTENDS Integers, Sequences, FiniteSets, TLC

VARIABLES cfg, n, pc, err, i, week,
          lisa, savings_account, current_account, isa,
          savings_account_results, current_account_results,
          isa_results, lisa_results,
          drawn, draw_log, written, written_log,
          p_lower_cs, p_lower_total, mean_total

vars == <<cfg, n, pc, err, i, week,
          lisa, savings_account, current_account, isa,
          savings_account_results, current_account_results,
          isa_results, lisa_results,
          drawn, draw_log, written, written_log,
          p_lower_cs, p_lower_total, mean_total>>

----------------------------------------------------------------------------
(* Bounds of the exploration *)

MaxRuns == 2

MaxWeeks == 5

MaxStochWeeks == 2

----------------------------------------------------------------------------
(* Rational arithmetic: Python's float operators +, -, *, /, < *)

\* The operators are functions so that an argument is evaluated once, however
\* deeply the expressions nest.
AbsInt(x) == IF x < 0 THEN -x ELSE x

Gcd[a \in Nat, b \in Nat] == IF b = 0 THEN a ELSE Gcd[b, a % b]

Norm[a \in Int, b \in Int] ==
  LET g == Gcd[AbsInt(a), AbsInt(b)]
      s == IF b < 0 THEN -1 ELSE 1
  IN  <<(s * a) \div g, (s * b) \div g>>

Rat(k) == <<k, 1>>

Q == Int \X Int

Add[x \in Q, y \in Q] == Norm[x[1] * y[2] + y[1] * x[2], x[2] * y[2]]

Sub[x \in Q, y \in Q] == Norm[x[1] * y[2] - y[1] * x[2], x[2] * y[2]]

Mul[x \in Q, y \in Q] == Norm[x[1] * y[1], x[2] * y[2]]

Div[x \in Q, y \in Q] == Norm[x[1] * y[2], x[2] * y[1]]

Lt[x \in Q, y \in Q] == x[1] * y[2] < y[1] * x[2]

Zero == Rat(0)

WeeksPerYear == 52

Percent == 100

----------------------------------------------------------------------------
(* Configurations: the keyword arguments of run_single_simulation *)

Scenario(nw) ==
  [ current_account_balance_now |-> 100,
    savings_account_balance_now |-> 1000,
    savings_account_interest    |-> 0,
    isa_balance_now             |-> 1000,
    isa_stdev                   |-> 0,
    isa_mean                    |-> 0,
    isa_weekly_payment          |-> 0,
    lisa_balance_now            |-> 1000,
    lisa_stdev                  |-> 0,
    lisa_mean                   |-> 0,
    lisa_weekly_payment         |-> 0,
    weekly_spendings_mean       |-> 0,
    weekly_spendings_stdev      |-> 0,
    annual_inflow               |-> 0,
    n_weeks                     |-> nw ]

\* zero variance everywhere, non-trivial rates and payments
Det(m, nw) ==
  [ current_account_balance_now |-> 100,
    savings_account_balance_now |-> 300,
    savings_account_interest    |-> 2600,
    isa_balance_now             |-> 1000,
    isa_stdev                   |-> 0,
    isa_mean                    |-> m,
    isa_weekly_payment          |-> 10,
    lisa_balance_now            |-> 400,
    lisa_stdev                  |-> 0,
    lisa_mean                   |-> 5200,
    lisa_weekly_payment         |-> 8,
    weekly_spendings_mean       |-> 400,
    weekly_spendings_stdev      |-> 0,
    annual_inflow               |-> 5200,
    n_weeks                     |-> nw ]

\* only the weekly spendings are random
SpendStoch(nw) ==
  [ Scenario(nw) EXCEPT
      !.savings_account_balance_now = 0,
      !.lisa_balance_now            = 500,
      !.weekly_spendings_mean       = 300,
      !.weekly_spendings_stdev      = 100,
      !.annual_inflow               = 15600 ]

\* all three draws are random
FullStoch(nw) ==
  [ Det(2600, nw) EXCEPT
      !.isa_stdev              = 50,
      !.lisa_stdev             = 50,
      !.lisa_mean              = 0,
      !.weekly_spendings_stdev = 100 ]

\* only the two growth draws are random
GrowthStoch(nw) ==
  [ FullStoch(nw) EXCEPT !.weekly_spendings_stdev = 0 ]

IsaMeans == {0, 2600, -2600}

ConfigSet ==
       { Scenario(nw) : nw \in -1 .. MaxWeeks }
  \cup { Det(m, nw) : m \in IsaMeans, nw \in -1 .. MaxWeeks }
  \cup { SpendStoch(nw) : nw \in 1 .. MaxWeeks }
  \cup { FullStoch(nw) : nw \in 1 .. MaxStochWeeks }
  \cup { GrowthStoch(nw) : nw \in 1 .. MaxStochWeeks + 1 }
  \cup { [Det(2600, nw) EXCEPT !.weekly_spendings_stdev = -1] : nw \in 0 .. MaxWeeks }
  \cup { [Det(2600, nw) EXCEPT !.isa_stdev = -1] : nw \in 0 .. MaxWeeks }
  \cup { [Det(2600, nw) EXCEPT !.lisa_stdev = -1] : nw \in 0 .. MaxWeeks }

----------------------------------------------------------------------------
(* np.random.normal(loc, scale): loc + scale * z for a standard normal z;  *)
(* exactly loc when scale = 0; ValueError when scale < 0.  ZSamples is the *)
(* finite sample of z explored.  For the growth draws the factor           *)
(* 1/sqrt(52) of the scale is folded into the sample: z/sqrt(52) is again  *)
(* an arbitrary real.                                                      *)

ZSamples == {Rat(-1), Rat(1)}

Normal(loc, scale) ==
  IF scale = Zero THEN {loc} ELSE { Add[loc, Mul[scale, z]] : z \in ZSamples }

SpendLoc(c) == Rat(c.weekly_spendings_mean)

SpendScale(c) == Rat(c.weekly_spendings_stdev)

GrowthLoc(mean) == Div[Div[Rat(mean), Rat(Percent)], Rat(WeeksPerYear)]

GrowthScale(stdev) == Div[Rat(stdev), Rat(Percent)]

----------------------------------------------------------------------------
(* The weekly update rules *)

SavingsPost(c, prev, spend) ==
  Sub[Add[prev, Div[Rat(c.annual_inflow), Rat(WeeksPerYear)]], spend]

\* variant: interest on the previous week's balance
SavingsUpdate_prevInterest(c, prev, spend) ==
  Add[SavingsPost(c, prev, spend),
      Div[Mul[prev, Div[Rat(c.savings_account_interest), Rat(Percent)]],
          Rat(WeeksPerYear)]]

SavingsUpdate(c, prev, spend) ==
  LET post == SavingsPost(c, prev, spend)
  IN  Add[post, Div[Mul[post, Div[Rat(c.savings_account_interest), Rat(Percent)]],
                    Rat(WeeksPerYear)]]

\* variant: reads the placeholder of the week being written
CurrentUpdate_placeholder(prev) == Zero

CurrentUpdate(prev) == prev

IsaPost(c, prev) == Add[prev, Rat(c.isa_weekly_payment)]

\* variant: growth on the balance before the contribution
IsaUpdate_preContribution(c, prev, growth) ==
  Add[IsaPost(c, prev), Mul[prev, growth]]

IsaUpdate(c, prev, growth) ==
  LET post == IsaPost(c, prev) IN Add[post, Mul[post, growth]]

\* variant: the match applied to the whole balance
LisaPost_matchBalance(c, prev) ==
  Mul[Add[prev, Rat(c.lisa_weekly_payment)], <<5, 4>>]

\* lisa_weekly_payment*1.25
LisaPost(c, prev) == Add[prev, Mul[Rat(c.lisa_weekly_payment), <<5, 4>>]]

LisaUpdate(c, prev, growth) ==
  LET post == LisaPost(c, prev) IN Add[post, Mul[post, growth]]

\* variant: the last week is not computed
LoopContinues_short(w, nw) == w < nw - 1

\* week in range(1, n_weeks)
LoopContinues(w, nw) == w < nw

\* [0]*n_weeks, then index 0 set to the balance now
InitList(nw, balance) == [w \in 0 .. nw - 1 |-> IF w = 0 THEN Rat(balance) ELSE Zero]

\* variant: ISA and LISA initial balances exchanged
InitLists_swapped(c) ==
  [ lisa            |-> InitList(c.n_weeks, c.isa_balance_now),
    savings_account |-> InitList(c.n_weeks, c.savings_account_balance_now),
    current_account |-> InitList(c.n_weeks, c.current_account_balance_now),
    isa             |-> InitList(c.n_weeks, c.lisa_balance_now) ]

\* variant: the savings of a run start where the previous run ended
InitLists_carried(c) ==
  [ lisa            |-> InitList(c.n_weeks, c.lisa_balance_now),
    savings_account |->
      IF savings_account_results = <<>>
        THEN InitList(c.n_weeks, c.savings_account_balance_now)
        ELSE [w \in 0 .. c.n_weeks - 1 |->
                IF w = 0 THEN savings_account_results[Len(savings_account_results)][c.n_weeks - 1]
                         ELSE Zero],
    current_account |-> InitList(c.n_weeks, c.current_account_balance_now),
    isa             |-> InitList(c.n_weeks, c.isa_balance_now) ]

InitLists(c) ==
  [ lisa            |-> InitList(c.n_weeks, c.lisa_balance_now),
    savings_account |-> InitList(c.n_weeks, c.savings_account_balance_now),
    current_account |-> InitList(c.n_weeks, c.current_account_balance_now),
    isa             |-> InitList(c.n_weeks, c.isa_balance_now) ]

Accounts == {"savings_account", "current_account", "isa", "lisa"}

----------------------------------------------------------------------------
(* The statistics of simulate *)

\* i[-1]
Last(list, nw) == list[nw - 1]

Finals(results, nw) == [k \in 1 .. Len(results) |-> Last(results[k], nw)]

SumSeq(s) ==
  LET S[k \in 0 .. Len(s)] == IF k = 0 THEN Zero ELSE Add[S[k - 1], s[k]]
  IN  S[Len(s)]

CurrentAndSavingsFinal ==
  [k \in 1 .. n |-> Add[Finals(savings_account_results, cfg.n_weeks)[k],
                        Finals(current_account_results, cfg.n_weeks)[k]]]

\* variant: the current account left out of the grand total
TotalFinal_noCurrent ==
  [k \in 1 .. n |-> Add[Add[Finals(savings_account_results, cfg.n_weeks)[k],
                            Finals(isa_results, cfg.n_weeks)[k]],
                        Finals(lisa_results, cfg.n_weeks)[k]]]

TotalFinal ==
  [k \in 1 .. n |-> Add[Add[Add[Finals(savings_account_results, cfg.n_weeks)[k],
                                Finals(current_account_results, cfg.n_weeks)[k]],
                            Finals(isa_results, cfg.n_weeks)[k]],
                        Finals(lisa_results, cfg.n_weeks)[k]]]

TotalStart(c) ==
  Rat(c.current_account_balance_now + c.savings_account_balance_now
      + c.isa_balance_now + c.lisa_balance_now)

\* variant: values equal to the reference are selected too
Below_orEqual(values, ref) == SelectSeq(values, LAMBDA v : ~ Lt[ref, v])

\* values[values < ref]
Below(values, ref) == SelectSeq(values, LAMBDA v : Lt[v, ref])

\* len(values[values < ref]) / n
FractionBelow(values, ref, runs) == Div[Rat(Len(Below(values, ref))), Rat(runs)]

\* ... * 100
PLower(values, ref, runs) == Mul[FractionBelow(values, ref, runs), Rat(Percent)]

\* np.mean
Mean(values) == Div[SumSeq(values), Rat(Len(values))]

----------------------------------------------------------------------------
(* State machine *)

NoList == [w \in {} |-> Zero]

Init ==
  /\ cfg \in ConfigSet
  /\ n \in 1 .. MaxRuns
  /\ pc = "start"
  /\ err = "none"
  /\ i = 0
  /\ week = 0
  /\ lisa = NoList
  /\ savings_account = NoList
  /\ current_account = NoList
  /\ isa = NoList
  /\ savings_account_results = <<>>
  /\ current_account_results = <<>>
  /\ isa_results = <<>>
  /\ lisa_results = <<>>
  /\ drawn = <<>>
  /\ draw_log = <<>>
  /\ written = {}
  /\ written_log = <<>>
  /\ p_lower_cs = Zero
  /\ p_lower_total = Zero
  /\ mean_total = Zero

\* run_single_simulation is entered for run i: the lists are created and
\* their index 0 assigned; an empty list makes lisa[0] = ... an IndexError
Call ==
  /\ pc = "start"
  /\ i < n
  /\ drawn' = <<>>
  /\ IF cfg.n_weeks <= 0
       THEN /\ pc' = "error"
            /\ err' = "IndexError"
            /\ lisa' = NoList
            /\ savings_account' = NoList
            /\ current_account' = NoList
            /\ isa' = NoList
            /\ written' = {}
            /\ UNCHANGED week
       ELSE /\ pc' = "loop"
            /\ err' = err
            /\ lisa' = InitLists(cfg).lisa
            /\ savings_account' = InitLists(cfg).savings_account
            /\ current_account' = InitLists(cfg).current_account
            /\ isa' = InitLists(cfg).isa
            /\ written' = Accounts \X {0}
            /\ week' = 1
  /\ UNCHANGED <<cfg, n, i, savings_account_results, current_account_results,
                 isa_results, lisa_results, draw_log, written_log,
                 p_lower_cs, p_lower_total, mean_total>>

\* the exception leaves run_single_simulation and simulate
Raise(e) == pc' = "error" /\ err' = e /\ UNCHANGED week

\* one iteration of the for loop over the weeks
WeekStep ==
  /\ pc = "loop"
  /\ LoopContinues(week, cfg.n_weeks)
  /\ IF Lt[SpendScale(cfg), Zero]
       THEN /\ Raise("ValueError")
            /\ UNCHANGED <<savings_account, current_account, isa, lisa, drawn, written>>
       ELSE \E spend \in Normal(SpendLoc(cfg), SpendScale(cfg)) :
         LET sav  == [savings_account EXCEPT
                        ![week] = SavingsUpdate(cfg, savings_account[week - 1], spend)]
             cur  == [current_account EXCEPT
                        ![week] = CurrentUpdate(current_account[week - 1])]
             log1 == Append(drawn, <<"spend", spend>>)
             wr1  == written \cup {<<"savings_account", week>>, <<"current_account", week>>}
         IN
         /\ savings_account' = sav
         /\ current_account' = cur
         /\ IF Lt[GrowthScale(cfg.isa_stdev), Zero]
              THEN /\ Raise("ValueError")
                   /\ isa' = [isa EXCEPT ![week] = IsaPost(cfg, isa[week - 1])]
                   /\ lisa' = lisa
                   /\ drawn' = log1
                   /\ written' = wr1 \cup {<<"isa", week>>}
              ELSE \E gi \in Normal(GrowthLoc(cfg.isa_mean), GrowthScale(cfg.isa_stdev)) :
                /\ isa' = [isa EXCEPT ![week] = IsaUpdate(cfg, isa[week - 1], gi)]
                /\ IF Lt[GrowthScale(cfg.lisa_stdev), Zero]
                     THEN /\ Raise("ValueError")
                          /\ lisa' = [lisa EXCEPT ![week] = LisaPost(cfg, lisa[week - 1])]
                          /\ drawn' = Append(log1, <<"isa", gi>>)
                          /\ written' = wr1 \cup {<<"isa", week>>, <<"lisa", week>>}
                     ELSE \E gl \in Normal(GrowthLoc(cfg.lisa_mean),
                                           GrowthScale(cfg.lisa_stdev)) :
                       /\ lisa' = [lisa EXCEPT ![week] = LisaUpdate(cfg, lisa[week - 1], gl)]
                       /\ drawn' = Append(Append(log1, <<"isa", gi>>), <<"lisa", gl>>)
                       /\ written' = wr1 \cup {<<"isa", week>>, <<"lisa", week>>}
                       /\ week' = week + 1
                       /\ UNCHANGED <<pc, err>>
  /\ UNCHANGED <<cfg, n, i, savings_account_results, current_account_results,
                 isa_results, lisa_results, draw_log, written_log,
                 p_lower_cs, p_lower_total, mean_total>>

\* the loop is over: the dictionary is returned and simulate appends its
\* four lists to the results
Return ==
  /\ pc = "loop"
  /\ ~ LoopContinues(week, cfg.n_weeks)
  /\ savings_account_results' = Append(savings_account_results, savings_account)
  /\ current_account_results' = Append(current_account_results, current_account)
  /\ isa_results' = Append(isa_results, isa)
  /\ lisa_results' = Append(lisa_results, lisa)
  /\ draw_log' = Append(draw_log, drawn)
  /\ written_log' = Append(written_log, written)
  /\ i' = i + 1
  /\ pc' = "start"
  /\ UNCHANGED <<cfg, n, err, week, lisa, savings_account, current_account, isa,
                 drawn, written, p_lower_cs, p_lower_total, mean_total>>

\* after the n runs: final balances, fractions below the reference, mean
Aggregate ==
  /\ pc = "start"
  /\ i = n
  /\ p_lower_cs' = PLower(CurrentAndSavingsFinal, Zero, n)
  /\ p_lower_total' = PLower(TotalFinal, TotalStart(cfg), n)
  /\ mean_total' = Mean(TotalFinal)
  /\ pc' = "done"
  /\ UNCHANGED <<cfg, n, err, i, week, lisa, savings_account, current_account, isa,
                 savings_account_results, current_account_results,
                 isa_results, lisa_results, drawn, draw_log, written, written_log>>

Next == Call \/ WeekStep \/ Return \/ Aggregate

Spec == Init /\ [][Next]_vars

\* sequential execution: the program takes its next step whenever it has one
FairSpec == Spec /\ WF_vars(Next)

----------------------------------------------------------------------------
(* Properties *)

Runs == 1 .. Len(savings_account_results)

Weeks == 0 .. cfg.n_weeks - 1

\* the value of the j-th draw of week w in run k (j = 1 spending, 2 ISA, 3 LISA)
DrawOf(k, w, j) == draw_log[k][3 * (w - 1) + j][2]

\* C1: in the lists of the run in progress and in every returned trajectory,
\* the week-0 entry of each of the four accounts is that account's own
\* configured initial balance.
C1_Week0 ==
  /\ pc = "loop" =>
       /\ savings_account[0] = Rat(cfg.savings_account_balance_now)
       /\ current_account[0] = Rat(cfg.current_account_balance_now)
       /\ isa[0] = Rat(cfg.isa_balance_now)
       /\ lisa[0] = Rat(cfg.lisa_balance_now)
  /\ \A k \in Runs :
       /\ savings_account_results[k][0] = Rat(cfg.savings_account_balance_now)
       /\ current_account_results[k][0] = Rat(cfg.current_account_balance_now)
       /\ isa_results[k][0] = Rat(cfg.isa_balance_now)
       /\ lisa_results[k][0] = Rat(cfg.lisa_balance_now)

\* a returned trajectory of at least two weeks whose four initial balances
\* are pairwise distinct and whose ISA and LISA moved away from them
C1_Witness ==
  /\ Runs # {}
  /\ cfg.n_weeks >= 2
  /\ Cardinality({cfg.savings_account_balance_now, cfg.current_account_balance_now,
                  cfg.isa_balance_now, cfg.lisa_balance_now}) = 4
  /\ isa_results[1][1] # isa_results[1][0]
  /\ lisa_results[1][1] # lisa_results[1][0]

\* C2: the current-account balance of every week of every returned
\* trajectory, and of every week already written in the run in progress,
\* equals current_account_balance_now.
C2_CurrentConstant ==
  /\ \A k \in Runs : \A w \in Weeks :
       current_account_results[k][w] = Rat(cfg.current_account_balance_now)
  /\ pc = "loop" => \A w \in 0 .. week - 1 :
       current_account[w] = Rat(cfg.current_account_balance_now)

\* a returned trajectory in which the three other accounts all changed
C2_Witness ==
  /\ Runs # {}
  /\ cfg.n_weeks >= 2
  /\ savings_account_results[1][1] # savings_account_results[1][0]
  /\ isa_results[1][1] # isa_results[1][0]
  /\ lisa_results[1][1] # lisa_results[1][0]
  /\ current_account_results[1][1] # Zero

\* C3: in every returned trajectory and every week w >= 1, with
\* post = savings[w-1] + annual_inflow/52 - spending draw of week w, the
\* savings balance is post + post * (savings_account_interest/100)/52,
\* whatever its sign.
C3_SavingsTwoStage ==
  \A k \in Runs : \A w \in 1 .. cfg.n_weeks - 1 :
    LET prev == savings_account_results[k][w - 1]
        post == Sub[Add[prev, Norm[cfg.annual_inflow, 52]], DrawOf(k, w, 1)]
        rate == Norm[cfg.savings_account_interest, 100]
    IN  savings_account_results[k][w] = Add[post, Div[Mul[post, rate], Rat(52)]]

\* a returned trajectory with interest, where the post-spend balance differs
\* from the previous balance and the savings balance is negative
C3_Witness ==
  /\ cfg.savings_account_interest # 0
  /\ \E k \in Runs : \E w \in 1 .. cfg.n_weeks - 1 :
       /\ Lt[savings_account_results[k][w], Zero]
       /\ Sub[Add[savings_account_results[k][w - 1], Norm[cfg.annual_inflow, 52]],
              DrawOf(k, w, 1)] # savings_account_results[k][w - 1]

\* C4: in every returned trajectory and every week w >= 1 the ISA is
\* (prev + isa_weekly_payment) * (1 + ISA growth draw of week w) and the LISA
\* is (prev + 1.25 * lisa_weekly_payment) * (1 + LISA growth draw of week w).
C4_Investments ==
  \A k \in Runs : \A w \in 1 .. cfg.n_weeks - 1 :
    LET ib == Add[isa_results[k][w - 1], Rat(cfg.isa_weekly_payment)]
        lb == Add[lisa_results[k][w - 1], Norm[5 * cfg.lisa_weekly_payment, 4]]
    IN  /\ isa_results[k][w] = Add[ib, Mul[ib, DrawOf(k, w, 2)]]
        /\ lisa_results[k][w] = Add[lb, Mul[lb, DrawOf(k, w, 3)]]

\* a returned trajectory with both payments non-zero and a week where the
\* two accounts drew different non-zero growth rates
C4_Witness ==
  /\ cfg.isa_weekly_payment # 0
  /\ cfg.lisa_weekly_payment # 0
  /\ \E k \in Runs : \E w \in 1 .. cfg.n_weeks - 1 :
       /\ DrawOf(k, w, 2) # DrawOf(k, w, 3)
       /\ DrawOf(k, w, 2) # Zero
       /\ DrawOf(k, w, 3) # Zero

\* a configuration that violates the invariant of the data model
Invalid(c) ==
  \/ c.n_weeks <= 0
  \/ c.isa_stdev < 0
  \/ c.lisa_stdev < 0
  \/ c.weekly_spendings_stdev < 0

\* C5: for an invalid configuration no weekly step is executed (no draw is
\* consumed, no index beyond week 0 is written) and no trajectory is
\* returned.
C5_FailFast ==
  Invalid(cfg) =>
    /\ drawn = <<>>
    /\ written \subseteq Accounts \X {0}
    /\ Runs = {}

\* number of completed runs whose final current+savings balance is below 0
CountCsBelow ==
  Cardinality({k \in Runs :
    Lt[Add[savings_account_results[k][cfg.n_weeks - 1],
           current_account_results[k][cfg.n_weeks - 1]], Zero]})

\* number of completed runs whose final grand total is below the sum of the
\* four initial balances
CountTotalBelow ==
  Cardinality({k \in Runs :
    Lt[Add[Add[savings_account_results[k][cfg.n_weeks - 1],
               current_account_results[k][cfg.n_weeks - 1]],
           Add[isa_results[k][cfg.n_weeks - 1], lisa_results[k][cfg.n_weeks - 1]]],
       Rat(cfg.current_account_balance_now + cfg.savings_account_balance_now
           + cfg.isa_balance_now + cfg.lisa_balance_now)]})

InUnitInterval(f) == ~ Lt[f, Zero] /\ ~ Lt[Rat(1), f]

\* C6: once the statistics are computed, each fraction below the reference
\* (the percentage p_lower divided by 100) lies in [0, 1] and is the number
\* of runs strictly below the reference (0 for current+savings, the sum of
\* the four initial balances for the grand total) divided by n.
C6_FractionBelow ==
  pc = "done" =>
    /\ InUnitInterval(Div[p_lower_cs, Rat(100)])
    /\ InUnitInterval(Div[p_lower_total, Rat(100)])
    /\ Div[p_lower_cs, Rat(100)] = Norm[CountCsBelow, n]
    /\ Div[p_lower_total, Rat(100)] = Norm[CountTotalBelow, n]

\* statistics computed over two runs: one ends with current+savings exactly
\* 0 (not counted) but a grand total below the start, the other ends with
\* current+savings below 0
C6_Witness ==
  /\ pc = "done"
  /\ n = 2
  /\ \E k \in Runs :
       Add[savings_account_results[k][cfg.n_weeks - 1],
           current_account_results[k][cfg.n_weeks - 1]] = Zero
  /\ p_lower_cs = Rat(50)
  /\ p_lower_total = Rat(100)

\* C7: in the concrete scenario (n_weeks = 5, everything zero but the
\* balances 100/1000/1000/1000) every account of every returned trajectory
\* is constant at its initial value and the mean grand total is 3100.
C7_Scenario ==
  cfg = Scenario(5) =>
    /\ \A k \in Runs : \A w \in 0 .. 4 :
         /\ current_account_results[k][w] = Rat(100)
         /\ savings_account_results[k][w] = Rat(1000)
         /\ isa_results[k][w] = Rat(1000)
         /\ lisa_results[k][w] = Rat(1000)
    /\ pc = "done" => mean_total = Rat(3100)

\* the scenario with the statistics computed over more than one run
C7_Witness ==
  /\ cfg = Scenario(5)
  /\ pc = "done"
  /\ n >= 2
  /\ Len(isa_results) = n
  /\ DOMAIN isa_results[n] = 0 .. 4

\* C8: two returned trajectories that consumed the same sequence of draws
\* are equal in all four accounts at every week, and every run consumes its
\* draws in the order spending, ISA growth, LISA growth, week after week.
C8_Deterministic ==
  /\ \A a \in Runs : \A b \in Runs :
       draw_log[a] = draw_log[b] =>
         /\ savings_account_results[a] = savings_account_results[b]
         /\ current_account_results[a] = current_account_results[b]
         /\ isa_results[a] = isa_results[b]
         /\ lisa_results[a] = lisa_results[b]
  /\ \A k \in Runs : \A j \in 1 .. Len(draw_log[k]) :
       draw_log[k][j][1] = CASE j % 3 = 1 -> "spend"
                             [] j % 3 = 2 -> "isa"
                             [] OTHER     -> "lisa"

\* two returned runs of a configuration with all three draws random that
\* consumed the same non-empty sequence of draws
C8_Witness ==
  /\ cfg.isa_stdev > 0 /\ cfg.lisa_stdev > 0 /\ cfg.weekly_spendings_stdev > 0
  /\ Len(draw_log) = 2
  /\ draw_log[1] = draw_log[2]
  /\ Len(draw_log[1]) >= 3
  /\ savings_account_results[2][1] # savings_account_results[2][0]

RECURSIVE Pow(_, _)
Pow(x, e) == IF e = 0 THEN Rat(1) ELSE Mul[x, Pow(x, e - 1)]

\* B*(1+r)^w + p*(1+r)*((1+r)^w - 1)/r, or B + w*p when r = 0
ClosedForm(B, p, r, w) ==
  IF r = Zero
    THEN Add[B, Mul[Rat(w), p]]
    ELSE LET g == Add[Rat(1), r]
         IN  Add[Mul[B, Pow(g, w)],
                 Div[Mul[Mul[p, g], Sub[Pow(g, w), Rat(1)]], r]]

\* the w-fold iterate of b -> (b + p)*(1 + r)
RECURSIVE Iterate(_, _, _, _)
Iterate(B, p, r, w) ==
  IF w = 0 THEN B ELSE Mul[Add[Iterate(B, p, r, w - 1), p], Add[Rat(1), r]]

\* C9: with isa_stdev = 0 the ISA balance of every week w of every returned
\* trajectory is the w-fold iterate of b -> (b + p)*(1 + r) and equals the
\* closed form, for r = isa_mean/100/52, p = isa_weekly_payment and
\* B = isa_balance_now.
C9_ClosedForm ==
  cfg.isa_stdev = 0 =>
    \A k \in Runs : \A w \in Weeks :
      LET r == Norm[cfg.isa_mean, 5200]
          p == Rat(cfg.isa_weekly_payment)
          B == Rat(cfg.isa_balance_now)
      IN  /\ isa_results[k][w] = Iterate(B, p, r, w)
          /\ isa_results[k][w] = ClosedForm(B, p, r, w)

\* a returned zero-variance trajectory of at least three weeks with a
\* non-zero rate and a non-zero contribution
C9_Witness ==
  /\ cfg.isa_stdev = 0
  /\ cfg.isa_mean # 0
  /\ cfg.isa_weekly_payment # 0
  /\ cfg.n_weeks >= 3
  /\ Runs # {}
  /\ isa_results[1][2] # isa_results[1][1]

\* Step accounting: a returned trajectory has exactly n_weeks entries per account, was
\* produced by exactly n_weeks - 1 weekly steps (three draws each) and has
\* every index 0 .. n_weeks-1 of all four accounts written; while a run is
\* in progress the four accounts are written up to the same week; with
\* n_weeks = 1 no step runs and the final values used by the statistics are
\* the initial balances.
C10_StepsInv ==
  /\ \A k \in Runs :
       /\ DOMAIN savings_account_results[k] = Weeks
       /\ DOMAIN current_account_results[k] = Weeks
       /\ DOMAIN isa_results[k] = Weeks
       /\ DOMAIN lisa_results[k] = Weeks
       /\ Len(draw_log[k]) = 3 * (cfg.n_weeks - 1)
       /\ written_log[k] = Accounts \X Weeks
  /\ pc = "loop" =>
       /\ week \in 1 .. cfg.n_weeks
       /\ Len(drawn) = 3 * (week - 1)
       /\ written = Accounts \X (0 .. week - 1)
  /\ (pc = "done" /\ cfg.n_weeks = 1) =>
       /\ \A k \in Runs : draw_log[k] = <<>>
       /\ mean_total = Rat(cfg.current_account_balance_now
                           + cfg.savings_account_balance_now
                           + cfg.isa_balance_now + cfg.lisa_balance_now)

\* the program has finished: statistics computed, or an exception raised
Terminated == pc \in {"done", "error"}

\* a completed weekly step moves to the next week and changes, in each of
\* the four lists, the entry of its own week and nothing else
Lockstep ==
  (pc = "loop" /\ pc' = "loop") =>
    /\ week' = week + 1
    /\ \A w \in Weeks \ {week} :
         /\ savings_account'[w] = savings_account[w]
         /\ current_account'[w] = current_account[w]
         /\ isa'[w] = isa[w]
         /\ lisa'[w] = lisa[w]

\* C10: the step accounting above holds throughout, every weekly step
\* advances the four accounts together by exactly one week, and every
\* execution terminates.
C10_Steps == [] C10_StepsInv /\ [][Lockstep]_vars /\ <> Terminated

\* statistics computed from returned trajectories of at least three weeks
C10_Witness ==
  /\ pc = "done"
  /\ cfg.n_weeks >= 3
  /\ Len(draw_log) = n
  /\ Len(draw_log[1]) = 3 * (cfg.n_weeks - 1)

====
